---------------------------- MODULE Spec2Model ----------------------------
(***************************************************************************)
(* A model of src/copter.py: Propellor, Copter and Quadcopter.             *)
(*                                                                         *)
(* Numbers.  The program computes in floating point; the model computes    *)
(* the same expressions exactly, on grids that keep every value rational:  *)
(*   - angles are counted in quarter turns: the integer a stands for       *)
(*     a * pi/2 rad, so pi is PiUnits = 2 and cos, sin are -1, 0 or 1;     *)
(*   - rotor speeds are counted in the unit S0 rev/min that makes the      *)
(*     product of the two coefficients of setSpeed a rational:             *)
(*     4.392e-8 * 4.23e-4 * S0^2 = 1 / ThrustDen;                          *)
(*   - propeller diameters and pitches are taken among the values whose    *)
(*     power 3.5 and square root are integers;                             *)
(*   - every other real (thrust, acceleration, inertia) is a rational      *)
(*     <<numerator, denominator>> in lowest terms, denominator > 0.        *)
(* scipy's ODE solver is outside the repository: what integrate() returns  *)
(* is a nondeterministic choice among SolverOutputs.                       *)
(*                                                                         *)
(* The constructor builds the rotors through the name Propeller (line 68); *)
(* the model takes the fleet as configured with the rotors of class        *)
(* Propellor (lines 8-36), which is the state every operation below        *)
(* presupposes.  No property checked here is about construction.           *)
(***************************************************************************)
EXTENDS Integers, Sequences, FiniteSets, TLC

VARIABLES
    state,        \* key -> wings[key]['state'], the 12-vector (index i+1 is Python's i)
    rotor,        \* key -> (1..4 -> Propellor), wings[key]['m1'..'m4']
    run,          \* self.run
    time,         \* self.time, a reading of the wall clock
    now,          \* the wall clock, datetime.datetime.now(), in milliseconds
    thread,       \* the background threads: each one's place in thread_run, its
                  \* arguments and its locals rate and last_update
    thread_object,\* self.thread_object: the thread start_thread created last (0: none)
    upc,          \* where the thread that called update(dt) is in it
    ukeys,        \* the keys update's for loop has still to visit, the current one first
    last,         \* the call the driving thread made last, and what it raised
    lastArgs,     \* the arguments of that call
    obs,          \* what a reading thread got from its last accessor call
    ret           \* what that call returned (None: nothing, or it raised)

vars == <<state, rotor, run, time, now, thread, thread_object,
          upc, ukeys, last, lastArgs, ret, obs>>

-----------------------------------------------------------------------------
(* Exact rational arithmetic, standing for the program's float arithmetic. *)

Abs(x) == IF x < 0 THEN -x ELSE x

RECURSIVE GCD(_, _)
GCD(a, b) == IF b = 0 THEN a ELSE GCD(b, a % b)

Rat(n, d) ==
    LET s == IF d < 0 THEN -1 ELSE 1
        g == GCD(Abs(n), Abs(d))
    IN  <<(s * n) \div g, (s * d) \div g>>

RInt(i) == <<i, 1>>
RAdd(p, q) == Rat(p[1] * q[2] + q[1] * p[2], p[2] * q[2])
RNeg(p) == <<-p[1], p[2]>>
RSub(p, q) == RAdd(p, RNeg(q))
RMul(p, q) == Rat(p[1] * q[1], p[2] * q[2])
RDiv(p, q) == Rat(p[1] * q[2], p[2] * q[1])
RZero == RInt(0)

-----------------------------------------------------------------------------
(* The configured fleet: the wings dictionary handed to Quadcopter().      *)

Keys == {"q1", "q2"}
\* The order in which "for key in self.wings" visits the dictionary.
KeyOrder == <<"q1", "q2">>
Rotors == 1 .. 4

Weight(key) == IF key = "q1" THEN 1 ELSE 4
ArmL(key) == 1
BodyR(key) == 1
\* prop_size: <<diameter, pitch>> in inches.
PropSize(key) == IF key = "q1" THEN <<4, 1>> ELSE <<4, 16>>
InitPosition(key) == IF key = "q1" THEN <<0, 0, 0>> ELSE <<0, 0, 1>>
InitOrientation(key) == IF key = "q1" THEN <<0, 0, 0>> ELSE <<0, 1, 0>>
\* The constructor's parameters gravity and b: the fleet is built with
\* gravity = 8 (9.81 by default) and the default b = 0.0245.
Gravity == 8
DragB == Rat(245, 10000)

PiUnits == 2
ThrustDen == 256

-----------------------------------------------------------------------------
(* Propellor                                                               *)

\* math.pow(diameter, 3.5) and math.sqrt(pitch) on the values used.
Pow35(d) == CASE d = 1 -> 1 [] d = 4 -> 128
Sqrt(p) == CASE p = 1 -> 1 [] p = 4 -> 2 [] p = 16 -> 4

\* Propellor.__init__
NewPropellor(diameter, pitch) ==
    [diameter |-> diameter, pitch |-> pitch, speed |-> 0, thrust |-> RZero]

\* The thrust setSpeed computes: 4.392e-8 * speed * diameter^3.5 / sqrt(pitch)
\* * (4.23e-4 * speed * pitch), the two coefficients' product being 1/ThrustDen
\* in the speed unit.
ThrustOf(diameter, pitch, speed) ==
    RMul(RDiv(Rat(speed * Pow35(diameter), ThrustDen), RInt(Sqrt(pitch))),
         RInt(speed * pitch))

\* Propellor.setSpeed: no check of the sign of speed.
setSpeed(p, speed) ==
    [p EXCEPT !.speed = speed,
              !.thrust = ThrustOf(p.diameter, p.pitch, speed)]

-----------------------------------------------------------------------------
(* Copter: construction-time values and the pure helpers.                  *)

\* ixx = iyy and izz of Copter.__init__ (lines 56-60), and the tensor's diagonal;
\* I and invI are diagonal, so each is kept as the vector of its diagonal.
Ixx(key) ==
    RAdd(RDiv(RInt(2 * Weight(key) * BodyR(key) * BodyR(key)), RInt(5)),
         RInt(2 * Weight(key) * ArmL(key) * ArmL(key)))
Izz(key) ==
    RAdd(RDiv(RInt(2 * Weight(key) * BodyR(key) * BodyR(key)), RInt(5)),
         RInt(4 * Weight(key) * ArmL(key) * ArmL(key)))
Inertia(key) == <<Ixx(key), Ixx(key), Izz(key)>>
InvInertia(key) ==
    <<RDiv(RInt(1), Ixx(key)), RDiv(RInt(1), Ixx(key)), RDiv(RInt(1), Izz(key))>>

\* np.zeros(12) with [0:3] the position and [6:9] the orientation.
InitState(key) ==
    InitPosition(key) \o <<0, 0, 0>> \o InitOrientation(key) \o <<0, 0, 0>>

\* math.cos and math.sin of an angle counted in quarter turns.
Quarter(a) == a % (2 * PiUnits)
Cos(a) == CASE Quarter(a) = 0 -> 1 [] Quarter(a) = 1 -> 0
            [] Quarter(a) = 2 -> -1 [] Quarter(a) = 3 -> 0
Sin(a) == CASE Quarter(a) = 0 -> 0 [] Quarter(a) = 1 -> 1
            [] Quarter(a) = 2 -> 0 [] Quarter(a) = 3 -> -1

\* np.dot of two 3x3 matrices, and of a 3x3 matrix and a vector.
MatMul(A, B) ==
    [i \in 1 .. 3 |->
        [j \in 1 .. 3 |-> A[i][1] * B[1][j] + A[i][2] * B[2][j] + A[i][3] * B[3][j]]]
MatVec(A, v) ==
    [i \in 1 .. 3 |-> A[i][1] * v[1] + A[i][2] * v[2] + A[i][3] * v[3]]

\* Copter.rotation_matrix: R_z . (R_y . R_x).
rotation_matrix(angles) ==
    LET ct == Cos(angles[1])
        cp == Cos(angles[2])
        cg == Cos(angles[3])
        st == Sin(angles[1])
        sp == Sin(angles[2])
        sg == Sin(angles[3])
        R_x == <<<<1, 0, 0>>, <<0, ct, -st>>, <<0, st, ct>>>>
        R_y == <<<<cp, 0, sp>>, <<0, 1, 0>>, <<-sp, 0, cp>>>>
        R_z == <<<<cg, -sg, 0>>, <<sg, cg, 0>>, <<0, 0, 1>>>>
    IN  MatMul(R_z, MatMul(R_y, R_x))

\* wrap_angle without the final subtraction of pi.
wrap_angle_unshifted(val) == (val + PiUnits) % (2 * PiUnits)

\* Copter.wrap_angle: (val + pi) % (2 pi) - pi; % with a positive divisor is
\* never negative, in Python as in TLA+.
wrap_angle(val) == ((val + PiUnits) % (2 * PiUnits)) - PiUnits

\* Lines 98-99 of update: the orientation [6:9] wrapped, the rest kept.
Wrapped(st) ==
    [i \in 1 .. 12 |-> IF i \in 7 .. 9 THEN wrap_angle(st[i]) ELSE st[i]]

\* Line 100 of update: state[2] = max(0, state[2]).
Max(a, b) == IF b > a THEN b ELSE a
\* Line 100 left out.
Clamped_dropped(st) == st
Clamped(st) == [st EXCEPT ![3] = Max(0, st[3])]

\* np.cross of two vectors of rationals.
Cross(a, b) ==
    <<RSub(RMul(a[2], b[3]), RMul(a[3], b[2])),
      RSub(RMul(a[3], b[1]), RMul(a[1], b[3])),
      RSub(RMul(a[1], b[2]), RMul(a[2], b[1]))>>

\* Quadcopter.state_dot(time, state, key) evaluated when the stored state of the
\* vehicle is stored and its rotors are m: s is the parameter named state, and
\* every read in the body is of self.wings[key]['state'], never of it.
state_dot_of(stored, m, t, s, key) ==
    LET w == RInt(Weight(key))
        L == RInt(ArmL(key))
        total == RAdd(RAdd(m[1].thrust, m[2].thrust), RAdd(m[3].thrust, m[4].thrust))
        R == rotation_matrix(SubSeq(stored, 7, 9))
        \* R . [0, 0, total] / weight
        lift == [i \in 1 .. 3 |-> RDiv(RMul(RInt(R[i][3]), total), w)]
        x_dotdot == <<RAdd(RZero, lift[1]),
                      RAdd(RZero, lift[2]),
                      RAdd(RInt(-(Weight(key) * Gravity)), lift[3])>>
        omega == <<RInt(stored[10]), RInt(stored[11]), RInt(stored[12])>>
        tau == <<RMul(L, RSub(m[1].thrust, m[3].thrust)),
                 RMul(L, RSub(m[2].thrust, m[4].thrust)),
                 RMul(DragB, RAdd(RSub(m[1].thrust, m[2].thrust),
                                  RSub(m[3].thrust, m[4].thrust)))>>
        I == Inertia(key)
        invI == InvInertia(key)
        Iomega == <<RMul(I[1], omega[1]), RMul(I[2], omega[2]), RMul(I[3], omega[3])>>
        c == Cross(omega, Iomega)
        omega_dot == [i \in 1 .. 3 |-> RMul(invI[i], RSub(tau[i], c[i]))]
    IN  <<RInt(stored[4]), RInt(stored[5]), RInt(stored[6]),
          x_dotdot[1], x_dotdot[2], x_dotdot[3],
          RInt(stored[10]), RInt(stored[11]), RInt(stored[12]),
          omega_dot[1], omega_dot[2], omega_dot[3]>>

state_dot(t, s, key) == state_dot_of(state[key], rotor[key], t, s, key)

-----------------------------------------------------------------------------
(* Bounds and the inputs the operations are called with.                   *)

MaxThreads == 3
MaxNow == 3
MaxAngle == 6

Threads == 1 .. MaxThreads
\* dt in milliseconds (0.002 s by default: 2) and time_scaling.
DtValues == {1, 2}
ScalingValues == {1, 2}
\* Rotor speeds, in the speed unit: a negative one, rest and the hover speed.
Speeds == {-2, 0, 2}
SpeedVectors == {<<2, 2, 2, 2>>, <<0, 2, 0, 2>>, <<2, 0, 0, 0>>}
\* What the solver may return: a vehicle sunk below the ground and rolled past
\* a full half turn, one at exactly pi and -pi, one at rest above the ground.
SolverOutputs ==
    { <<0, 0, -1,  0, 0, -1,  3, 0, 0,  0, 0, 0>>,
      <<0, 0, 1,   1, 0, 2,   2, -2, 5,  0, 1, 0>>,
      <<0, 0, 1,   0, 0, 0,   0, 0, 0,  0, 0, 0>> }
Positions == {<<0, 0, -1>>, <<0, 0, 1>>}
Orientations == {<<0, 0, 0>>, <<2, 0, -3>>}
\* State arguments state_dot is called with, besides the stored state.
ArgStates ==
    { <<0, 0, 1,   0, 0, 0,   0, 0, 0,  0, 0, 0>>,
      <<0, 0, 1,   1, 0, 2,   0, 1, 0,  0, 1, 0>> }

None == <<>>

-----------------------------------------------------------------------------
(* The state after Quadcopter(wings) returns.                              *)

Init ==
    /\ state = [key \in Keys |-> InitState(key)]
    /\ rotor = [key \in Keys |->
                   [i \in Rotors |-> NewPropellor(PropSize(key)[1], PropSize(key)[2])]]
    /\ run = TRUE
    /\ time = 0
    /\ now = 0
    /\ thread = [t \in Threads |->
                    [pc |-> "none", dt |-> 0, time_scaling |-> 0,
                     rate |-> 0, last_update |-> 0, stopped |-> FALSE]]
    /\ thread_object = 0
    /\ upc = "idle"
    /\ ukeys = <<>>
    /\ last = [op |-> "__init__", raised |-> "none"]
    /\ lastArgs = None
    /\ ret = None
    /\ obs = None

-----------------------------------------------------------------------------
(* The clock: start_thread, stop_thread and the steps of thread_run.       *)

\* The wall clock advances.
Tick ==
    /\ now < MaxNow
    /\ now' = now + 1
    /\ UNCHANGED <<state, rotor, run, time, thread, thread_object,
                   upc, ukeys, last, lastArgs, ret, obs>>

\* start_thread: a new Thread on thread_run, started; self.run is not touched and
\* no earlier thread is looked at.
start_thread(dt, time_scaling) ==
    /\ thread_object < MaxThreads
    /\ thread_object' = thread_object + 1
    /\ thread' = [thread EXCEPT ![thread_object + 1] =
                     [pc |-> "entry", dt |-> dt, time_scaling |-> time_scaling,
                      rate |-> 0, last_update |-> 0, stopped |-> FALSE]]
    /\ UNCHANGED <<state, rotor, run, time, now, upc, ukeys, last, lastArgs, ret, obs>>

\* stop_thread: self.run = False.  (stopped notes, for each thread started so
\* far, that a stop was requested after its start.)
stop_thread ==
    /\ run' = FALSE
    /\ thread' = [t \in Threads |->
                     IF thread[t].pc = "none" THEN thread[t]
                     ELSE [thread[t] EXCEPT !.stopped = TRUE]]
    /\ UNCHANGED <<state, rotor, time, now, thread_object,
                   upc, ukeys, last, lastArgs, ret, obs>>

\* thread_run, lines 141-142: rate and last_update.
ThreadEnter(t) ==
    /\ thread[t].pc = "entry"
    /\ thread' = [thread EXCEPT ![t].rate = thread[t].time_scaling * thread[t].dt,
                                ![t].last_update = time,
                                ![t].pc = "while"]
    /\ UNCHANGED <<state, rotor, run, time, now, thread_object,
                   upc, ukeys, last, lastArgs, ret, obs>>

\* thread_run, line 143: the loop's test of self.run.
ThreadWhile(t) ==
    /\ thread[t].pc = "while"
    /\ thread' = [thread EXCEPT ![t].pc = IF run = TRUE THEN "sleep" ELSE "returned"]
    /\ UNCHANGED <<state, rotor, run, time, now, thread_object,
                   upc, ukeys, last, lastArgs, ret, obs>>

\* thread_run, line 144: time.sleep(0).  The module imports numpy, math,
\* scipy.integrate, datetime and threading: the name time is bound nowhere, the
\* call raises NameError and the thread ends; lines 145-148 are never reached.
ThreadSleep(t) ==
    /\ thread[t].pc = "sleep"
    /\ thread' = [thread EXCEPT ![t].pc = "raised"]
    /\ UNCHANGED <<state, rotor, run, time, now, thread_object,
                   upc, ukeys, last, lastArgs, ret, obs>>

ClockNext ==
    \/ Tick
    \/ \E dt \in DtValues, time_scaling \in ScalingValues : start_thread(dt, time_scaling)
    \/ stop_thread
    \/ \E t \in Threads : ThreadEnter(t)
    \/ \E t \in Threads : ThreadWhile(t)
    \/ \E t \in Threads : ThreadSleep(t)

ClockSpec == Init /\ [][ClockNext]_vars

-----------------------------------------------------------------------------
(* update(dt), statement by statement, and the setters of the thread that  *)
(* drives the simulation by hand.                                          *)

Returned(op) == [op |-> op, raised |-> "none"]

\* update is called: the for loop starts on the first key.
UpdateCall(dt) ==
    /\ upc = "idle"
    /\ upc' = "integrate"
    /\ ukeys' = KeyOrder
    /\ last' = [op |-> "update", raised |-> "running"]
    /\ lastArgs' = <<dt>>
    /\ ret' = None
    /\ UNCHANGED <<state, rotor, run, time, now, thread, thread_object, obs>>

\* Lines 95-97: the solver's result replaces the stored state, as it comes.
UpdateIntegrate ==
    /\ upc = "integrate"
    /\ \E y \in SolverOutputs : state' = [state EXCEPT ![Head(ukeys)] = y]
    /\ upc' = "wrap"
    /\ UNCHANGED <<rotor, run, time, now, thread, thread_object,
                   ukeys, last, lastArgs, obs, ret>>

\* Lines 98-99: the orientation is wrapped in place.
UpdateWrap ==
    /\ upc = "wrap"
    /\ state' = [state EXCEPT ![Head(ukeys)] = Wrapped(state[Head(ukeys)])]
    /\ upc' = "clamp"
    /\ UNCHANGED <<rotor, run, time, now, thread, thread_object,
                   ukeys, last, lastArgs, obs, ret>>

\* Line 100: the vertical position is clamped; then the next key, or the return.
UpdateClamp ==
    /\ upc = "clamp"
    /\ state' = [state EXCEPT ![Head(ukeys)] = Clamped(state[Head(ukeys)])]
    /\ ukeys' = Tail(ukeys)
    /\ upc' = IF Tail(ukeys) = <<>> THEN "idle" ELSE "integrate"
    /\ last' = IF Tail(ukeys) = <<>> THEN Returned("update") ELSE last
    /\ UNCHANGED <<rotor, run, time, now, thread, thread_object, lastArgs, obs, ret>>

\* update(dt) run from call to return with no other thread in between.
update(dt) ==
    /\ upc = "idle"
    /\ \E ys \in [Keys -> SolverOutputs] :
          state' = [key \in Keys |-> Clamped(Wrapped(ys[key]))]
    /\ last' = Returned("update")
    /\ lastArgs' = <<dt>>
    /\ ret' = None
    /\ UNCHANGED <<rotor, run, time, now, thread, thread_object, upc, ukeys, obs>>

\* set_position: state[0:3] = position.
set_position(quad_name, position) ==
    /\ upc = "idle"
    /\ state' = [state EXCEPT ![quad_name] =
                    position \o SubSeq(state[quad_name], 4, 12)]
    /\ last' = Returned("set_position")
    /\ lastArgs' = <<quad_name, position>>
    /\ ret' = None
    /\ UNCHANGED <<rotor, run, time, now, thread, thread_object, upc, ukeys, obs>>

\* set_orientation: state[6:9] = orientation.
set_orientation(quad_name, orientation) ==
    /\ upc = "idle"
    /\ state' = [state EXCEPT ![quad_name] =
                    SubSeq(state[quad_name], 1, 6) \o orientation
                        \o SubSeq(state[quad_name], 10, 12)]
    /\ last' = Returned("set_orientation")
    /\ lastArgs' = <<quad_name, orientation>>
    /\ ret' = None
    /\ UNCHANGED <<rotor, run, time, now, thread, thread_object, upc, ukeys, obs>>

-----------------------------------------------------------------------------
(* The accessors, called by a thread other than the one inside update.     *)
(* No lock is taken anywhere in the class: a call reads what is stored at  *)
(* that moment.  mid notes that the read fell between the store of the     *)
(* solver's result for that vehicle (line 97) and the end of line 100.     *)

MidStep(quad_name) == upc \in {"wrap", "clamp"} /\ Head(ukeys) = quad_name

Observe(op, quad_name, value) ==
    /\ obs' = [op |-> op, key |-> quad_name, value |-> value, mid |-> MidStep(quad_name)]
    /\ UNCHANGED <<state, rotor, run, time, now, thread, thread_object,
                   upc, ukeys, last, lastArgs, ret>>

get_position(quad_name) ==
    Observe("get_position", quad_name, SubSeq(state[quad_name], 1, 3))
get_linear_rate(quad_name) ==
    Observe("get_linear_rate", quad_name, SubSeq(state[quad_name], 4, 6))
get_orientation(quad_name) ==
    Observe("get_orientation", quad_name, SubSeq(state[quad_name], 7, 9))
get_angular_rate(quad_name) ==
    Observe("get_angular_rate", quad_name, SubSeq(state[quad_name], 10, 12))
get_state(quad_name) ==
    Observe("get_state", quad_name, state[quad_name])

\* The default specification: one thread drives update and the setters, another
\* reads through the accessors.
Next ==
    \/ \E dt \in DtValues : UpdateCall(dt)
    \/ UpdateIntegrate
    \/ UpdateWrap
    \/ UpdateClamp
    \/ \E key \in Keys, position \in Positions : set_position(key, position)
    \/ \E key \in Keys, orientation \in Orientations : set_orientation(key, orientation)
    \/ \E key \in Keys : get_position(key)
    \/ \E key \in Keys : get_linear_rate(key)
    \/ \E key \in Keys : get_orientation(key)
    \/ \E key \in Keys : get_angular_rate(key)
    \/ \E key \in Keys : get_state(key)

Spec == Init /\ [][Next]_vars

-----------------------------------------------------------------------------
(* The rotors: Propellor.setSpeed called on wings[key]['m<i>'], and        *)
(* Copter.set_motor_speeds.                                                *)

PropellorSetSpeed(key, i, speed) ==
    /\ upc = "idle"
    /\ rotor' = [rotor EXCEPT ![key][i] = setSpeed(rotor[key][i], speed)]
    /\ last' = Returned("setSpeed")
    /\ lastArgs' = <<speed>>
    /\ ret' = None
    /\ UNCHANGED <<state, run, time, now, thread, thread_object, upc, ukeys, obs>>

\* set_motor_speeds(quad_name, speeds), lines 103-105.  range(num_wings) is
\* evaluated first: num_wings is a parameter of __init__ and setupWings and no
\* name of this scope or of the module, so the call raises NameError before any
\* rotor is touched.  (The body would go on to read the unbound name key and to
\* call set_speed, which Propellor does not define.)
set_motor_speeds(quad_name, speeds) ==
    /\ upc = "idle"
    /\ last' = [op |-> "set_motor_speeds", raised |-> "NameError"]
    /\ lastArgs' = <<quad_name, speeds>>
    /\ ret' = None
    /\ UNCHANGED <<state, rotor, run, time, now, thread, thread_object,
                   upc, ukeys, obs>>

RotorNext ==
    \/ \E key \in Keys, i \in Rotors, speed \in Speeds : PropellorSetSpeed(key, i, speed)
    \/ \E key \in Keys, speeds \in SpeedVectors : set_motor_speeds(key, speeds)

RotorSpec == Init /\ [][RotorNext]_vars

-----------------------------------------------------------------------------
(* The derivative: state_dot called with a key and a state argument, as    *)
(* the solver calls it and as any caller may.                              *)

StateDotCall(key, s) ==
    /\ upc = "idle"
    /\ last' = Returned("state_dot")
    /\ lastArgs' = <<0, s, key>>
    /\ ret' = state_dot(0, s, key)
    /\ UNCHANGED <<state, rotor, run, time, now, thread, thread_object,
                   upc, ukeys, obs>>

HoverSpeeds == {0, 2}

DerivNext ==
    \/ \E key \in Keys, i \in Rotors, speed \in HoverSpeeds :
          PropellorSetSpeed(key, i, speed)
    \/ \E dt \in DtValues : update(dt)
    \/ \E key \in Keys : \E s \in ArgStates \cup {state[key]} : StateDotCall(key, s)

DerivSpec == Init /\ [][DerivNext]_vars

-----------------------------------------------------------------------------
(* Properties.                                                             *)

UpdateReturned == upc = "idle" /\ last = Returned("update")
AngleInputs == (-MaxAngle) .. MaxAngle
InWrapRange(a) == -PiUnits <= a /\ a <= PiUnits

\* C1: once update(dt) has returned, the vertical position state[2] of every
\* vehicle of the fleet is >= 0, whatever the solver returned for it and whatever
\* the state was before the call.
C1_GroundClamp ==
    UpdateReturned => \A key \in Keys : state[key][3] >= 0

\* C1's case: update has returned and some vehicle holds the post-processed form
\* of a solver result whose vertical position was negative.
C1_Witness ==
    /\ UpdateReturned
    /\ \E key \in Keys, y \in SolverOutputs : y[3] < 0 /\ state[key] = Clamped(Wrapped(y))

\* C2 (as claimed): the clock can be restarted: a loop started after an earlier
\* start_thread() and stop_thread() leaves its while loop only when stop_thread()
\* is called again, after its own start.
C2_Restartable ==
    \A t \in Threads :
        (t > 1 /\ thread[t - 1].stopped /\ thread[t].pc = "returned")
            => thread[t].stopped

\* C3 (as claimed): at most one background thread is inside the loop of
\* thread_run at any time, however often start_thread() was called.
C3_SingleLoop ==
    Cardinality({t \in Threads : thread[t].pc \in {"while", "sleep"}}) <= 1

\* What an accessor returned is the finished result of whole steps: vertical
\* position clamped, orientation wrapped.
Finished(o) ==
    CASE o.op = "get_state" -> o.value = Clamped(Wrapped(o.value))
      [] o.op = "get_position" -> o.value[3] >= 0
      [] o.op = "get_orientation" -> \A i \in 1 .. 3 : o.value[i] = wrap_angle(o.value[i])
      [] OTHER -> TRUE

\* C4 (as claimed): a read that falls inside an integration step of the vehicle
\* it reads never returns the step's intermediate state: what it returns has
\* vertical position >= 0 and a wrapped orientation.
C4_NoIntermediateRead ==
    (obs # None /\ obs.mid) => Finished(obs)

\* C5 (as claimed): while the clock is Running and a step is due for a started
\* loop (the wall clock is more than rate past its last_update), that loop is
\* still executing, so that it applies the step.
C5_DueStepApplied ==
    \A t \in Threads :
        (/\ run = TRUE
         /\ thread[t].pc \notin {"none", "entry"}
         /\ now - thread[t].last_update > thread[t].rate)
            => thread[t].pc \in {"while", "sleep"}

\* C6 (as claimed): after set_motor_speeds(name, speeds), every rotor i of the
\* named vehicle has speed speeds[i] and the thrust computed from its diameter,
\* its pitch and that speed.
C6_MotorSpeedsSet ==
    last.op = "set_motor_speeds" =>
        \A i \in Rotors :
            LET p == rotor[lastArgs[1]][i]
            IN  /\ p.speed = lastArgs[2][i]
                /\ p.thrust = ThrustOf(p.diameter, p.pitch, lastArgs[2][i])

\* C7 (as claimed): after every update(dt), each orientation component
\* state[6:9] of every vehicle lies in (-pi, pi]: -pi excluded, pi included.
C7_HalfOpenRange ==
    UpdateReturned =>
        \A key \in Keys : \A i \in 7 .. 9 :
            -PiUnits < state[key][i] /\ state[key][i] <= PiUnits

\* C7 (amended): wrap_angle(v) lies in the closed interval [-pi, pi] for every
\* input v, and so does each orientation component of every vehicle after
\* every update(dt); the lower end -pi is attained.
C7_WrapRange ==
    /\ \A v \in AngleInputs : InWrapRange(wrap_angle(v))
    /\ UpdateReturned =>
          \A key \in Keys : \A i \in 7 .. 9 : InWrapRange(state[key][i])

\* C7's case: update has returned and an orientation the solver left at pi or
\* beyond has been wrapped, here onto -pi itself.
C7_Witness ==
    /\ UpdateReturned
    /\ \E key \in Keys, y \in SolverOutputs :
          /\ y[7] >= PiUnits
          /\ state[key] = Clamped(Wrapped(y))
          /\ state[key][7] = -PiUnits

\* The state argument is level and at rest.
LevelAtRest(s) == \A i \in 4 .. 12 : s[i] = 0

\* C8 (as claimed): hover is an equilibrium for every mass: state_dot on a level
\* state at rest, each of the four rotors producing weight * g / 4, returns zero
\* linear (entries 3..5) and zero angular (entries 9..11) acceleration.  The call
\* taken is the one whose argument is the stored state itself.
C8_HoverEquilibrium ==
    (/\ last.op = "state_dot"
     /\ LevelAtRest(lastArgs[2])
     /\ state[lastArgs[3]] = lastArgs[2]
     /\ \A i \in Rotors :
           rotor[lastArgs[3]][i].thrust = Rat(Weight(lastArgs[3]) * Gravity, 4))
        => \A i \in (4 .. 6) \cup (10 .. 12) : ret[i] = RZero

\* C9 (as claimed): setSpeed with a negative speed reports an error and stores
\* nothing: no rotor ever holds a negative speed.
C9_NegativeSpeedRejected ==
    /\ \A key \in Keys, i \in Rotors : rotor[key][i].speed >= 0
    /\ (last.op = "setSpeed" /\ lastArgs[1] < 0) => last.raised # "none"

\* C10 (as claimed): state_dot(time, s, key) is a function of its argument s:
\* entries 0..2 are s[3..5], entries 6..8 are s[9..11], and the accelerations are
\* those computed from the orientation and angular velocity in s.
C10_FunctionOfArgument ==
    last.op = "state_dot" =>
        LET s == lastArgs[2]
            key == lastArgs[3]
        IN  /\ \A i \in 1 .. 3 : ret[i] = RInt(s[i + 3])
            /\ \A i \in 7 .. 9 : ret[i] = RInt(s[i + 3])
            /\ ret = state_dot_of(s, rotor[key], 0, s, key)

=============================================================================
